---- MODULE Spec2Model ----
(***************************************************************************)
(* Model of analyzer.mjs: a command-line feedback classifier.  Each        *)
(* non-blank input line is sent to a sentiment model and then to a         *)
(* zero-shot intent model; the two answers are merged by a fixed rule      *)
(* table (getFeedbackBucket) and the result is printed.                    *)
(*                                                                         *)
(* Scores are hundredths (0.35 is 35).  A JSON value is a record with a    *)
(* "kind" field; an object's missing property is a missing record field,   *)
(* except an entry's missing score, which reads as Undefined.              *)
(***************************************************************************)
EXTENDS Integers, Sequences, FiniteSets, TLC

VARIABLES
    pc,         \* where the top-level code is suspended
    apiKey,     \* process.env.HUGGINGFACE_API_KEY is set
    text,       \* the trimmed line handed to analyze (a sequence of characters)
    inflight,   \* the fetch requests issued and not yet settled
    res,        \* the response the last settled fetch delivered to callModel
    sentiment,  \* analyze's local `sentiment`
    intents,    \* analyze's local `intents` (the full ranked list)
    result,     \* the loop's local `result`, as printed
    printed,    \* number of RESULT blocks written to stdout
    err         \* the error that rejected the top-level await, if any

vars == <<pc, apiKey, text, inflight, res, sentiment, intents, result, printed, err>>

----------------------------------------------------------------------------
(* Bounds of the model *)

MaxLabels == 6
MaxMisaligned == 3
MaxSentimentEntries == 2
MaxResults == 2

----------------------------------------------------------------------------
(* Program constants *)

SENTIMENT_MODEL == "cardiffnlp/twitter-roberta-base-sentiment-latest"
INTENT_MODEL == "facebook/bart-large-mnli"

INTENT_LABELS ==
    << "greeting", "product_query", "order_status", "refund", "cancel_order",
       "password_reset", "account_login", "bug_report", "feature_request",
       "complaint", "praise", "question" >>

\* 0.35, in hundredths
Threshold == 35
\* slice(0, 3) of the filtered intents
TopCount == 3
\* slice(0, 5) of the ranked intents
ShownCount == 5
\* the value a missing property reads as (no score is negative)
Undefined == -1

IsNumber(x) == x # Undefined

----------------------------------------------------------------------------
(* Small helpers on sequences *)

Min(a, b) == IF a < b THEN a ELSE b

\* Array.prototype.slice(from, to) with 0-based, end-exclusive indices
Slice(s, from, to) == SubSeq(s, from + 1, Min(to, Len(s)))

\* Array.prototype.includes on a list of names
Includes(names, l) == \E i \in 1..Len(names) : names[i] = l

Whitespace == {" ", "\t"}

RECURSIVE TrimStart(_)
TrimStart(s) ==
    IF s # <<>> /\ Head(s) \in Whitespace THEN TrimStart(Tail(s)) ELSE s

RECURSIVE TrimEnd(_)
TrimEnd(s) ==
    IF s # <<>> /\ s[Len(s)] \in Whitespace
    THEN TrimEnd(SubSeq(s, 1, Len(s) - 1)) ELSE s

\* String.prototype.trim
Trim(s) == TrimEnd(TrimStart(s))

----------------------------------------------------------------------------
(* JSON values and HTTP responses *)

JNull == [kind |-> "null"]
JInvalid == [kind |-> "invalid"]          \* a body JSON.parse rejects
JArray(items) == [kind |-> "array", items |-> items]
JEntry(l, s) == [kind |-> "object", label |-> l, score |-> s]

IsArray(v) == v.kind = "array"

\* a settled fetch: net = "fail" when fetch itself rejects
HttpResponse(status, body, json) ==
    [net |-> "ok", status |-> status, text |-> body, json |-> json]
NetworkFailure == [net |-> "fail", status |-> 0, text |-> "", json |-> JNull]
NoResponse == [net |-> "none", status |-> 0, text |-> "", json |-> JNull]

\* Response.ok
ResOk(r) == r.net = "ok" /\ r.status >= 200 /\ r.status <= 299

NoError == [name |-> "none"]
NoSentiment == [label |-> "", score |-> Undefined]
NoResult ==
    [input |-> <<>>, sentiment |-> NoSentiment, intents_ranked |-> <<>>,
     feedback_bucket |-> ""]

Return(v) == [ok |-> TRUE, value |-> v]
Throw(e) == [ok |-> FALSE, error |-> e]

----------------------------------------------------------------------------
(* callModel *)

Request(model, inputs) == [model |-> model, inputs |-> inputs]

\* faulty variant: the `if (!res.ok)` check is missing
callModel_NoStatusCheck(r) ==
    IF r.net = "fail"
    THEN Throw([name |-> "TypeError", message |-> <<"fetch failed">>])
    ELSE IF r.json.kind = "invalid"
    THEN Throw([name |-> "SyntaxError", message |-> <<"Unexpected token">>])
    ELSE Return(r.json)

\* what callModel gives its caller once fetch has settled with r
callModel(r) ==
    IF r.net = "fail"
    THEN Throw([name |-> "TypeError", message |-> <<"fetch failed">>])
    ELSE IF ~ResOk(r)
    THEN Throw([name |-> "Error",
                message |-> <<"HTTP ", r.status, " -> ", r.text>>])
    ELSE IF r.json.kind = "invalid"
    THEN Throw([name |-> "SyntaxError", message |-> <<"Unexpected token">>])
    ELSE Return(r.json)

----------------------------------------------------------------------------
(* getSentiment *)

\* cur.score > best.score: a comparison with undefined is false
ScoreGreater(a, b) == IsNumber(a) /\ IsNumber(b) /\ a > b

\* faulty variant: `>=` in place of `>`, so the last maximum wins
RECURSIVE Reduce_LastMax(_, _)
Reduce_LastMax(arr, best) ==
    IF arr = <<>> THEN best
    ELSE Reduce_LastMax(Tail(arr),
                IF IsNumber(Head(arr).score) /\ IsNumber(best.score)
                     /\ Head(arr).score >= best.score
                THEN Head(arr) ELSE best)

\* arr.reduce((best, cur) => (cur.score > best.score ? cur : best), best)
RECURSIVE Reduce(_, _)
Reduce(arr, best) ==
    IF arr = <<>> THEN best
    ELSE Reduce(Tail(arr),
                IF ScoreGreater(Head(arr).score, best.score)
                THEN Head(arr) ELSE best)

\* Array.isArray(data) && Array.isArray(data[0]) ? data[0] : data
Unwrap(data) ==
    IF IsArray(data) /\ data.items # <<>> /\ IsArray(data.items[1])
    THEN data.items[1] ELSE data

\* the part of getSentiment after callModel returned data
getSentiment(data) ==
    LET arr == Unwrap(data) IN
    IF ~IsArray(arr)
    THEN Throw([name |-> "TypeError", message |-> <<"reduce">>])
    ELSE IF arr.items = <<>>
    THEN Throw([name |-> "TypeError", message |-> <<"label">>])
    ELSE LET top == Reduce(arr.items, arr.items[1])
         IN  Return([label |-> top.label, score |-> top.score])

----------------------------------------------------------------------------
(* getIntent *)

\* data.labels || [] and data.scores || []
Labels(data) == IF "labels" \in DOMAIN data THEN data.labels ELSE <<>>
Scores(data) == IF "scores" \in DOMAIN data THEN data.scores ELSE <<>>

\* labels.map((l, i) => ({ label: l, score: scores[i] }))
Paired(labels, scores) ==
    [i \in 1..Len(labels) |->
        [label |-> labels[i],
         score |-> IF i <= Len(scores) THEN scores[i] ELSE Undefined]]

\* faulty variant: a.score - b.score, an ascending order
Comparator_Ascending(a, b) ==
    IF IsNumber(a.score) /\ IsNumber(b.score) THEN a.score - b.score ELSE 0

\* (a, b) => b.score - a.score; a NaN result counts as +0
Comparator(a, b) ==
    IF IsNumber(a.score) /\ IsNumber(b.score) THEN b.score - a.score ELSE 0

\* insert e behind every element that does not sort after it
RECURSIVE Insert(_, _)
Insert(s, e) ==
    IF s = <<>> THEN <<e>>
    ELSE IF Comparator(Head(s), e) > 0 THEN <<e>> \o s
    ELSE <<Head(s)>> \o Insert(Tail(s), e)

\* faulty variant: the `.sort(...)` call is missing
StableSort_Missing(s) == s

RECURSIVE StableSort(_)
StableSort(s) ==
    IF s = <<>> THEN <<>>
    ELSE Insert(StableSort(SubSeq(s, 1, Len(s) - 1)), s[Len(s)])

\* the comparator orders s consistently: every score is a number, or the
\* numbers among them are all equal (then every comparison yields 0)
ConsistentComparator(s) ==
    \/ \A i \in 1..Len(s) : IsNumber(s[i].score)
    \/ \A i, j \in 1..Len(s) :
          IsNumber(s[i].score) /\ IsNumber(s[j].score) => s[i].score = s[j].score

Reorderings(s) ==
    { [i \in 1..Len(s) |-> s[p[i]]] :
        p \in { q \in [1..Len(s) -> 1..Len(s)] :
                  \A i, j \in 1..Len(s) : i # j => q[i] # q[j] } }

\* Array.prototype.sort: stable; with an inconsistent comparator the order
\* is implementation-defined
SortOutcomes(s) ==
    IF ConsistentComparator(s) THEN {StableSort(s)} ELSE Reorderings(s)

\* the part of getIntent after callModel returned data: the lists it can return
getIntent(data) ==
    IF data.kind = "null"
    THEN {Throw([name |-> "TypeError", message |-> <<"labels">>])}
    ELSE {Return(r) : r \in SortOutcomes(Paired(Labels(data), Scores(data)))}

----------------------------------------------------------------------------
(* getFeedbackBucket *)

AboveThreshold(i) == IsNumber(i.score) /\ i.score >= Threshold

\* intents.filter(i => i.score >= 0.35)
RECURSIVE Filter(_)
Filter(s) ==
    IF s = <<>> THEN <<>>
    ELSE IF AboveThreshold(Head(s)) THEN <<Head(s)>> \o Filter(Tail(s))
    ELSE Filter(Tail(s))

\* faulty variant: slice(0, 4)
ActiveIntents_TopFour(ranked) == Slice(Filter(ranked), 0, TopCount + 1)

\* intents.filter(i => i.score >= 0.35).slice(0, 3)
ActiveIntents(ranked) == Slice(Filter(ranked), 0, TopCount)

\* top.map(t => t.label)
Names(top) == [i \in 1..Len(top) |-> top[i].label]

\* faulty variant: the praise rule is tested before the complaint rule
getFeedbackBucket_PraiseFirst(sentimentLabel, ranked) ==
    LET names == Names(ActiveIntents(ranked)) IN
    IF Includes(names, "praise") \/ sentimentLabel = "positive"
    THEN "praise"
    ELSE IF Includes(names, "complaint") \/ sentimentLabel = "negative"
    THEN "complaint"
    ELSE IF Includes(names, "bug_report") THEN "bug_report"
    ELSE IF Includes(names, "refund") \/ Includes(names, "cancel_order")
    THEN "refund/cancellation"
    ELSE IF Includes(names, "feature_request") THEN "suggestion"
    ELSE IF Includes(names, "question") THEN "question"
    ELSE "other"

getFeedbackBucket(sentimentLabel, ranked) ==
    LET names == Names(ActiveIntents(ranked)) IN
    IF Includes(names, "complaint") \/ sentimentLabel = "negative"
    THEN "complaint"
    ELSE IF Includes(names, "bug_report") THEN "bug_report"
    ELSE IF Includes(names, "refund") \/ Includes(names, "cancel_order")
    THEN "refund/cancellation"
    ELSE IF Includes(names, "feature_request") THEN "suggestion"
    ELSE IF Includes(names, "praise") \/ sentimentLabel = "positive"
    THEN "praise"
    ELSE IF Includes(names, "question") THEN "question"
    ELSE "other"

\* the record analyze returns
AnalysisResult(t, s, ranked) ==
    [input |-> t, sentiment |-> s,
     intents_ranked |-> Slice(ranked, 0, ShownCount),
     feedback_bucket |-> getFeedbackBucket(s.label, ranked)]

----------------------------------------------------------------------------
(* What the user types and what the remote endpoints answer *)

Lines ==
    { <<>>, <<" ">>, <<" ", "\t">>, <<"o", "k">>, <<" ", "o", "k", " ">> }

SentimentLabels == {"negative", "neutral", "positive"}
SentimentScores == {Undefined, 50, 90}
IntentScores == {20, 35, 60}
ErrorStatuses == {404, 500}
ErrorBodies == {"", "Internal Server Error"}

SentimentEntries == {JEntry(l, s) : l \in SentimentLabels, s \in SentimentScores}

EntryLists ==
    UNION { [1..k -> SentimentEntries] : k \in 0..MaxSentimentEntries }

Failures ==
    {NetworkFailure}
      \cup {HttpResponse(st, b, JNull) : st \in ErrorStatuses, b \in ErrorBodies}
      \cup {HttpResponse(200, "", JInvalid)}

SentimentResponses ==
    Failures
      \cup {HttpResponse(200, "", JNull)}
      \cup {HttpResponse(200, "", JArray(l)) : l \in EntryLists}
      \cup {HttpResponse(200, "", JArray(<<JArray(l)>>)) : l \in EntryLists}

\* k candidate labels in the order of INTENT_LABELS, starting at any of them
LabelList(start, k) ==
    [i \in 1..k |-> INTENT_LABELS[((start + i - 2) % Len(INTENT_LABELS)) + 1]]

LabelLists(maxLen) ==
    {LabelList(s, k) : s \in 1..Len(INTENT_LABELS), k \in 0..maxLen}

ScoreLists(maxLen) == UNION { [1..k -> IntentScores] : k \in 0..maxLen }

\* labels and scores of equal length
AlignedIntents ==
    UNION { { [kind |-> "object", labels |-> l, scores |-> s] :
                s \in [1..Len(l) -> IntentScores] } :
            l \in LabelLists(MaxLabels) }

\* labels and scores of different lengths, or one of them absent
MisalignedIntents ==
    UNION { { [kind |-> "object", labels |-> l, scores |-> s] :
                s \in {x \in ScoreLists(MaxMisaligned) : Len(x) # Len(l)} } :
            l \in LabelLists(MaxMisaligned) }
      \cup { [kind |-> "object", labels |-> l] : l \in LabelLists(MaxMisaligned) }
      \cup { [kind |-> "object", scores |-> s] : s \in ScoreLists(MaxMisaligned) }
      \cup { [kind |-> "object"] }

IntentResponses ==
    Failures
      \cup {HttpResponse(200, "", JNull)}
      \cup {HttpResponse(200, "", j) : j \in AlignedIntents \cup MisalignedIntents}

----------------------------------------------------------------------------
(* The program *)

Init ==
    /\ pc = "start"
    /\ apiKey \in BOOLEAN
    /\ text = <<>>
    /\ inflight = {}
    /\ res = NoResponse
    /\ sentiment = NoSentiment
    /\ intents = <<>>
    /\ result = NoResult
    /\ printed = 0
    /\ err = NoError

\* lines 9-12 and 129-131: the key check, then the banner and the first prompt
Startup ==
    /\ pc = "start"
    /\ pc' = IF apiKey THEN "question" ELSE "exited"
    /\ UNCHANGED <<apiKey, text, inflight, res, sentiment, intents, result,
                   printed, err>>

\* faulty variant: analyze starts both calls at once (Promise.all)
ReadLine_BothCalls ==
    /\ pc = "question"
    /\ printed < MaxResults
    /\ \E line \in Lines :
        /\ text' = Trim(line)
        /\ IF Trim(line) = <<>>
           THEN /\ pc' = "question"
                /\ inflight' = inflight
           ELSE /\ pc' = "getSentiment"
                /\ inflight' = {Request(SENTIMENT_MODEL, Trim(line)),
                                Request(INTENT_MODEL, Trim(line))}
    /\ res' = NoResponse
    /\ sentiment' = NoSentiment
    /\ intents' = <<>>
    /\ result' = NoResult
    /\ UNCHANGED <<apiKey, printed, err>>

\* rl.question settles with a line: a blank one is skipped, any other one
\* enters analyze, getSentiment and callModel up to the fetch
ReadLine ==
    /\ pc = "question"
    /\ printed < MaxResults
    /\ \E line \in Lines :
        /\ text' = Trim(line)
        /\ IF Trim(line) = <<>>
           THEN /\ pc' = "question"
                /\ inflight' = inflight
           ELSE /\ pc' = "getSentiment"
                /\ inflight' = {Request(SENTIMENT_MODEL, Trim(line))}
    /\ res' = NoResponse
    /\ sentiment' = NoSentiment
    /\ intents' = <<>>
    /\ result' = NoResult
    /\ UNCHANGED <<apiKey, printed, err>>

\* an error leaves analyze and the top-level await: the process ends
Reject(r, e) ==
    /\ pc' = "exited"
    /\ err' = e
    /\ res' = r
    /\ inflight' = {}
    /\ UNCHANGED <<apiKey, text, sentiment, intents, result, printed>>

\* the sentiment fetch settles: callModel and the rest of getSentiment run
SentimentReply ==
    /\ pc = "getSentiment"
    /\ Request(SENTIMENT_MODEL, text) \in inflight
    /\ \E r \in SentimentResponses :
        LET c == callModel(r) IN
        IF ~c.ok THEN Reject(r, c.error)
        ELSE LET s == getSentiment(c.value) IN
             IF ~s.ok THEN Reject(r, s.error)
             ELSE /\ sentiment' = s.value
                  /\ res' = r
                  /\ inflight' = inflight \ {Request(SENTIMENT_MODEL, text)}
                  /\ pc' = "sentimentDone"
                  /\ UNCHANGED <<apiKey, text, intents, result, printed, err>>

\* analyze resumes behind `await getSentiment(text)` and enters getIntent
\* and callModel up to the fetch
CallIntent ==
    /\ pc = "sentimentDone"
    /\ pc' = "getIntent"
    /\ inflight' = inflight \cup {Request(INTENT_MODEL, text)}
    /\ res' = NoResponse
    /\ UNCHANGED <<apiKey, text, sentiment, intents, result, printed, err>>

\* the intent fetch settles: callModel, the rest of getIntent and of analyze
\* run, the loop prints the result and prompts again
IntentReply ==
    /\ pc = "getIntent"
    /\ Request(INTENT_MODEL, text) \in inflight
    /\ \E r \in IntentResponses :
        LET c == callModel(r) IN
        IF ~c.ok THEN Reject(r, c.error)
        ELSE \E g \in getIntent(c.value) :
             IF ~g.ok THEN Reject(r, g.error)
             ELSE /\ intents' = g.value
                  /\ result' = AnalysisResult(text, sentiment, g.value)
                  /\ printed' = printed + 1
                  /\ res' = r
                  /\ inflight' = inflight \ {Request(INTENT_MODEL, text)}
                  /\ pc' = "question"
                  /\ UNCHANGED <<apiKey, text, sentiment, err>>

Next ==
    \/ Startup
    \/ ReadLine
    \/ SentimentReply
    \/ CallIntent
    \/ IntentReply

Spec == Init /\ [][Next]_vars

----------------------------------------------------------------------------
(* Properties *)

\* a result has been assembled and printed for the current line
HasResult == result # NoResult

\* the list of {label, score} entries of a sentiment response, flat or nested
EntriesOf(json) ==
    IF json.items # <<>> /\ json.items[1].kind = "array"
    THEN json.items[1].items ELSE json.items

\* the intent response has labels and scores of equal length
Aligned(json) ==
    /\ "labels" \in DOMAIN json
    /\ "scores" \in DOMAIN json
    /\ Len(json.labels) = Len(json.scores)

\* the positions of the first TopCount entries scoring at least Threshold
ActiveIndexes(s) ==
    { i \in 1..Len(s) :
        /\ s[i].score >= Threshold
        /\ Cardinality({j \in 1..(i - 1) : s[j].score >= Threshold}) < TopCount }

Buckets ==
    {"complaint", "bug_report", "refund/cancellation", "suggestion", "praise",
     "question", "other"}

\* the intent labels and the sentiment label that can yield a bucket
TriggerLabels(b) ==
    CASE b = "complaint" -> {"complaint"}
      [] b = "bug_report" -> {"bug_report"}
      [] b = "refund/cancellation" -> {"refund", "cancel_order"}
      [] b = "suggestion" -> {"feature_request"}
      [] b = "praise" -> {"praise"}
      [] b = "question" -> {"question"}
      [] OTHER -> {}

TriggerSentiments(b) ==
    CASE b = "complaint" -> {"negative"}
      [] b = "praise" -> {"positive"}
      [] OTHER -> {}

\* C1: when analyze fails for a non-blank line, the loop reports the error
\* and goes on prompting; the process is not terminated.
C1_LoopSurvivesFailure == err # NoError => pc = "question"

\* C2: the bucket is one of the 7 buckets, chosen by the first matching rule
\* of the fixed order complaint, bug_report, refund/cancellation, suggestion,
\* praise, question, other over the active intent set; negative sentiment or
\* an active complaint always yields "complaint".
C2_BucketPriority ==
    HasResult =>
        LET act == ActiveIntents(intents)
            A == {act[i].label : i \in 1..Len(act)}
            s == sentiment.label
            b == result.feedback_bucket
            r1 == "complaint" \in A \/ s = "negative"
            r2 == "bug_report" \in A
            r3 == "refund" \in A \/ "cancel_order" \in A
            r4 == "feature_request" \in A
            r5 == "praise" \in A \/ s = "positive"
            r6 == "question" \in A
        IN  /\ b \in Buckets
            /\ r1 => b = "complaint"
            /\ ~r1 /\ r2 => b = "bug_report"
            /\ ~r1 /\ ~r2 /\ r3 => b = "refund/cancellation"
            /\ ~r1 /\ ~r2 /\ ~r3 /\ r4 => b = "suggestion"
            /\ ~r1 /\ ~r2 /\ ~r3 /\ ~r4 /\ r5 => b = "praise"
            /\ ~r1 /\ ~r2 /\ ~r3 /\ ~r4 /\ ~r5 /\ r6 => b = "question"
            /\ ~r1 /\ ~r2 /\ ~r3 /\ ~r4 /\ ~r5 /\ ~r6 => b = "other"

\* a complaint and a praise are both active and the sentiment is positive
C2_Witness ==
    /\ HasResult
    /\ sentiment.label = "positive"
    /\ \E i, j \in ActiveIndexes(intents) :
          intents[i].label = "praise" /\ intents[j].label = "complaint"
    /\ result.feedback_bucket = "complaint"

\* C3: the active intent set is exactly the first 3 (at most) entries, in
\* ranked order, among those scoring >= 0.35; an entry below 0.35, or 4th
\* or later among those at or above it, never decides the bucket.
C3_ActiveSet ==
    HasResult =>
        LET idx == ActiveIndexes(intents)
            act == ActiveIntents(intents)
            Nth(k) == CHOOSE i \in idx : Cardinality({j \in idx : j < i}) = k - 1
            b == result.feedback_bucket
        IN  /\ Len(act) = Cardinality(idx)
            /\ \A k \in 1..Len(act) : act[k] = intents[Nth(k)]
            /\ b # "other" =>
                  \/ sentiment.label \in TriggerSentiments(b)
                  \/ \E i \in idx : intents[i].label \in TriggerLabels(b)

\* a complaint ranked 4th among the entries at or above the threshold, with
\* a sentiment that is not negative, does not yield "complaint"
C3_Witness ==
    /\ HasResult
    /\ Len(intents) >= 4
    /\ \A i \in 1..4 : intents[i].score >= Threshold
    /\ intents[4].label = "complaint"
    /\ sentiment.label # "negative"
    /\ result.feedback_bucket # "complaint"

\* C4: analyze yields a result only if both remote calls succeeded; when a
\* call fails, analyze fails with that call's error (for a non-2xx response,
\* one carrying the status code and the raw body) and no result, partial or
\* not, is returned or printed for that input.
C4_NoPartialResult ==
    [][ /\ pc' = "sentimentDone" => ResOk(res')
        /\ (result' # NoResult /\ result = NoResult) =>
              /\ pc = "getIntent"
              /\ sentiment # NoSentiment
              /\ ResOk(res')
        /\ printed' # printed => result' # NoResult /\ result = NoResult
        /\ (res' # NoResponse /\ ~ResOk(res')) =>
              /\ pc' = "exited"
              /\ result' = NoResult
              /\ printed' = printed
              /\ res'.net = "ok" =>
                    /\ err'.name = "Error"
                    /\ err'.message[2] = res'.status
                    /\ err'.message[4] = res'.text
              /\ res'.net = "fail" => err'.message = <<"fetch failed">>
      ]_vars

\* the intent call failed with HTTP 500 after the sentiment call succeeded
C4_Witness ==
    /\ pc = "exited"
    /\ sentiment # NoSentiment
    /\ res.net = "ok" /\ res.status = 500 /\ res.text = "Internal Server Error"
    /\ err.name = "Error"
    /\ result = NoResult

\* C5: at most one remote call is in flight at any time; the intent call is
\* issued only after the sentiment call of the same line has completed, and
\* no line is read while a call of the current line is in flight.
C5_OneCallAtATime ==
    /\ Cardinality(inflight) <= 1
    /\ \A r \in inflight :
        /\ r.inputs = text
        /\ r.model = SENTIMENT_MODEL => pc = "getSentiment"
        /\ r.model = INTENT_MODEL => pc = "getIntent" /\ sentiment # NoSentiment
    /\ pc = "question" => inflight = {}

\* the intent call of a second line is in flight after the first was printed
C5_Witness ==
    /\ printed = 1
    /\ pc = "getIntent"
    /\ inflight = {Request(INTENT_MODEL, text)}

\* C6: getSentiment fails whenever the response array is empty or holds an
\* entry without a numeric score; it never returns a score that is not a
\* number.
C6_MalformedSentimentFails ==
    pc = "sentimentDone" =>
        /\ EntriesOf(res.json) # <<>>
        /\ \A i \in 1..Len(EntriesOf(res.json)) :
              IsNumber(EntriesOf(res.json)[i].score)
        /\ IsNumber(sentiment.score)

\* C7: getIntent returns exactly min(len(labels), len(scores)) entries, each
\* with a numeric score; with labels or scores absent the list is empty.
C7_TruncatesToShorter ==
    (HasResult /\ res.json.kind = "object") =>
        /\ Len(intents) = Min(Len(Labels(res.json)), Len(Scores(res.json)))
        /\ \A i \in 1..Len(intents) : IsNumber(intents[i].score)

\* C8: for a non-empty sentiment response, flat or nested, getSentiment
\* returns the label and score of the first entry holding the maximum score.
C8_FirstMaximum ==
    (pc = "sentimentDone"
       /\ \A i \in 1..Len(EntriesOf(res.json)) :
             IsNumber(EntriesOf(res.json)[i].score)) =>
        LET arr == EntriesOf(res.json) IN
        \E i \in 1..Len(arr) :
            /\ \A j \in 1..Len(arr) : arr[j].score <= arr[i].score
            /\ \A j \in 1..(i - 1) : arr[j].score < arr[i].score
            /\ sentiment = [label |-> arr[i].label, score |-> arr[i].score]

\* a nested response whose maximum is held by two entries of different
\* labels, the first of them not at the head of the list
C8_Witness ==
    /\ pc = "sentimentDone"
    /\ res.json.items[1].kind = "array"
    /\ LET arr == EntriesOf(res.json) IN
        /\ Len(arr) >= 2
        /\ \E i, j \in 1..Len(arr) :
              /\ i < j
              /\ arr[i].score = 90 /\ arr[j].score = 90
              /\ arr[i].label # arr[j].label
              /\ sentiment.label = arr[i].label

\* C9: for labels and scores of equal length, getIntent returns the paired
\* entries in non-increasing score order, entries of equal score in their
\* response order.
C9_StableDescending ==
    (HasResult /\ Aligned(res.json)) =>
        LET l == res.json.labels
            sc == res.json.scores
            n == Len(l)
            Rank(k) ==
                1 + Cardinality({j \in 1..n : sc[j] > sc[k]})
                  + Cardinality({j \in 1..(k - 1) : sc[j] = sc[k]})
        IN  /\ Len(intents) = n
            /\ \A k \in 1..n :
                  intents[Rank(k)] = [label |-> l[k], score |-> sc[k]]
            /\ \A i \in 1..(n - 1) : intents[i].score >= intents[i + 1].score

\* a response that is not yet in order and holds two entries of equal score
C9_Witness ==
    /\ HasResult
    /\ Aligned(res.json)
    /\ Len(intents) >= 3
    /\ intents # Paired(res.json.labels, res.json.scores)
    /\ \E i \in 1..(Len(intents) - 1) :
          /\ intents[i].score = intents[i + 1].score
          /\ intents[i].label # intents[i + 1].label

\* C10: for labels and scores of equal length, the active intent set that
\* decides feedback_bucket is a prefix of the printed intents_ranked.
C10_ActiveIsShown ==
    (HasResult /\ Aligned(res.json)) =>
        LET act == ActiveIntents(intents)
            shown == result.intents_ranked
        IN  /\ Len(act) <= Len(shown)
            /\ \A i \in 1..Len(act) : act[i] = shown[i]

\* more entries than are shown, three of them active and one below the
\* threshold
C10_Witness ==
    /\ HasResult
    /\ Aligned(res.json)
    /\ Len(intents) > ShownCount
    /\ Len(result.intents_ranked) = ShownCount
    /\ Len(ActiveIntents(intents)) = TopCount
    /\ \E i \in 1..Len(intents) : intents[i].score < Threshold

====
